---- MODULE Spec2Model ----
(***************************************************************************)
(* Byte pair encoding tokenizers of minbpe: BasicTokenizer (basic.py),     *)
(* RegexTokenizer (regex.py) and the draft _merge of minbpe/tokenizer.py.  *)
(*                                                                         *)
(* A text is a sequence of Unicode code points, a token list a sequence of *)
(* integers, bytes a sequence of integers 0..255.  A Python dict is a      *)
(* sequence of [key, val] records in insertion order.                      *)
(***************************************************************************)
EXTENDS Integers, Sequences, FiniteSets, TLC

(***************************************************************************)
(* Bounds of the model.                                                    *)
(***************************************************************************)
\* longest text given to train
MaxCorpusLen == 2
\* longest text given to encode
MaxTextLen == 3
\* most merges a train call is asked for: vocab_size <= BaseVocab + MaxMerges
MaxMerges == 2
\* longest token list given to _merge on its own
MaxMergeLen == 4

\* the 256 byte values: range(256) in _byte_pair_encode
BaseVocab == 256

\* code points the texts are made of: 'a', ' ', U+00E9 (two bytes in UTF-8)
Alphabet == {97, 32, 233}
\* the text of the documented scenario, "aaab"
ScenarioText == <<97, 97, 97, 98>>
\* the token list of the documented scenario, [256, 97, 98]
ScenarioTokens == <<256, 97, 98>>

SeqsUpTo(S, n) == UNION {[1..k -> S] : k \in 0..n}

Corpora == SeqsUpTo(Alphabet, MaxCorpusLen) \cup {ScenarioText}
Texts == SeqsUpTo(Alphabet, MaxTextLen) \cup {ScenarioText}
\* from one below the byte alphabet to MaxMerges above it
VocabSizes == (BaseVocab - 1)..(BaseVocab + MaxMerges)

(***************************************************************************)
(* Optional values: None and a present value.                              *)
(***************************************************************************)
None == [isNone |-> TRUE]
Some(x) == [isNone |-> FALSE, val |-> x]

(***************************************************************************)
(* str.encode('utf-8') and bytes.decode('utf-8', errors='replace'), for    *)
(* code points below 2048 (one and two byte forms).                        *)
(***************************************************************************)
ReplacementChar == 65533

Utf8Char(cp) ==
    IF cp < 128 THEN <<cp>>
    ELSE <<192 + (cp \div 64), 128 + (cp % 64)>>

RECURSIVE Utf8Encode(_)
Utf8Encode(text) ==
    IF text = <<>> THEN <<>>
    ELSE Utf8Char(Head(text)) \o Utf8Encode(Tail(text))

IsContinuation(b) == b >= 128 /\ b <= 191

RECURSIVE Utf8Decode(_)
Utf8Decode(bytes) ==
    IF bytes = <<>> THEN <<>>
    ELSE LET b == Head(bytes) IN
         IF b < 128 THEN <<b>> \o Utf8Decode(Tail(bytes))
         ELSE IF b >= 194 /\ b <= 223 /\ Len(bytes) >= 2 /\ IsContinuation(bytes[2])
              THEN <<(b - 192) * 64 + (bytes[2] - 128)>>
                       \o Utf8Decode(SubSeq(bytes, 3, Len(bytes)))
              ELSE <<ReplacementChar>> \o Utf8Decode(Tail(bytes))

(***************************************************************************)
(* dict: get, item assignment, and max(d, key=d.get).                      *)
(***************************************************************************)
HasKey(d, k) == \E j \in 1..Len(d) : d[j].key = k

DictGet(d, k, default) ==
    IF HasKey(d, k) THEN d[CHOOSE j \in 1..Len(d) : d[j].key = k].val ELSE default

\* d[k] = v: a present key keeps its place, a new key goes last
DictSet(d, k, v) ==
    IF HasKey(d, k)
    THEN [j \in 1..Len(d) |-> IF d[j].key = k THEN [key |-> k, val |-> v] ELSE d[j]]
    ELSE Append(d, [key |-> k, val |-> v])

\* the last key, in iteration order, whose value is largest
MaxKeyLast(d) ==
    d[CHOOSE j \in 1..Len(d) :
        /\ \A k \in 1..Len(d) : d[k].val <= d[j].val
        /\ \A k \in (j+1)..Len(d) : d[k].val < d[j].val].key

\* max(d, key=d.get): the first key, in iteration order, whose value is largest
MaxKey(d) ==
    d[CHOOSE j \in 1..Len(d) :
        /\ \A k \in 1..Len(d) : d[k].val <= d[j].val
        /\ \A k \in 1..(j-1) : d[k].val < d[j].val].key

RECURSIVE Flatten(_)
Flatten(chunks) ==
    IF chunks = <<>> THEN <<>> ELSE Head(chunks) \o Flatten(Tail(chunks))

(***************************************************************************)
(* GPT4_SPLIT_PATTERN and re.findall, on code points below 256.            *)
(***************************************************************************)
CodePoints == 0..255
Letters == (65..90) \cup (97..122) \cup {170, 181, 186}
               \cup (192..214) \cup (216..246) \cup (248..255)
Digits == (48..57) \cup {178, 179, 185, 188, 189, 190}
Spaces == (9..13) \cup {32, 133, 160}
Newlines == {10, 13}
\* [^\r\n\p{L}\p{N}] and [^\s\p{L}\p{N}]
NotLineOrWord == CodePoints \ (Newlines \cup Letters \cup Digits)
NotSpaceOrWord == CodePoints \ (Spaces \cup Letters \cup Digits)
ToLower(c) == IF c \in 65..90 THEN c + 32 ELSE c

\* the number of elements of s, from position i on, that lie in class S
RECURSIVE Run(_, _, _)
Run(s, i, S) ==
    IF i <= Len(s) /\ s[i] \in S THEN 1 + Run(s, i + 1, S) ELSE 0

\* '(?i:[sdmt]|ll|ve|re)
AltContraction(s, i) ==
    LET at(j) == IF j <= Len(s) THEN ToLower(s[j]) ELSE 0 IN
    IF s[i] # 39 THEN 0
    ELSE IF at(i+1) \in {115, 100, 109, 116} THEN 2
    ELSE IF <<at(i+1), at(i+2)>> \in {<<108, 108>>, <<118, 101>>, <<114, 101>>} THEN 3
    ELSE 0

\* [^\r\n\p{L}\p{N}]?+\p{L}+
AltWord(s, i) ==
    LET lead == IF s[i] \in NotLineOrWord THEN 1 ELSE 0
        n == Run(s, i + lead, Letters)
    IN  IF n >= 1 THEN lead + n ELSE 0

\* \p{N}{1,3}
AltNumber(s, i) ==
    LET n == Run(s, i, Digits) IN IF n > 3 THEN 3 ELSE n

\*  ?[^\s\p{L}\p{N}]++[\r\n]*
AltPunct(s, i) ==
    LET lead == IF s[i] = 32 /\ Run(s, i + 1, NotSpaceOrWord) >= 1 THEN 1 ELSE 0
        n == Run(s, i + lead, NotSpaceOrWord)
    IN  IF n >= 1 THEN lead + n + Run(s, i + lead + n, Newlines) ELSE 0

\* \s*[\r\n]
AltLineEnd(s, i) ==
    LET n == Run(s, i, Spaces)
        ends == {k \in 1..n : s[i + k - 1] \in Newlines}
    IN  IF ends = {} THEN 0 ELSE CHOOSE k \in ends : \A m \in ends : m <= k

\* \s+(?!\S)
AltSpaceBefore(s, i) ==
    LET n == Run(s, i, Spaces) IN
    IF n = 0 THEN 0
    ELSE IF i + n > Len(s) THEN n
    ELSE n - 1

\* \s+
AltSpace(s, i) == Run(s, i, Spaces)

\* the length of the match at position i: the first alternative that matches
MatchAt(s, i) ==
    LET alts == <<AltContraction(s, i), AltWord(s, i), AltNumber(s, i), AltPunct(s, i),
                  AltLineEnd(s, i), AltSpaceBefore(s, i), AltSpace(s, i)>>
        hits == {a \in 1..Len(alts) : alts[a] > 0}
    IN  IF hits = {} THEN 0
        ELSE alts[CHOOSE a \in hits : \A b \in hits : a <= b]

\* re.findall(pattern, text) from position i on: the matches, left to right
RECURSIVE FindAllFrom(_, _)
FindAllFrom(s, i) ==
    IF i > Len(s) THEN <<>>
    ELSE LET n == MatchAt(s, i) IN
         IF n = 0 THEN FindAllFrom(s, i + 1)
         ELSE <<SubSeq(s, i, i + n - 1)>> \o FindAllFrom(s, i + n)

FindAll(text) == FindAllFrom(text, 1)

(***************************************************************************)
(* BasicTokenizer, basic.py.  Lists are indexed from 1 here, from 0 there. *)
(***************************************************************************)
\* the loop of _count_pairs over zip(tokens, tokens[1:]), from pair i on
RECURSIVE Basic_count_from(_, _, _)
Basic_count_from(tokens, i, counts) ==
    IF i >= Len(tokens) THEN counts
    ELSE LET pair == <<tokens[i], tokens[i+1]>> IN
         Basic_count_from(tokens, i + 1, DictSet(counts, pair, DictGet(counts, pair, 0) + 1))

Basic_count_pairs(tokens) == Basic_count_from(tokens, 1, <<>>)

\* the while loop of _merge from index i on: what it appends to new_tokens
RECURSIVE Basic_merge_from(_, _, _, _)
Basic_merge_from(tokens, pair_to_replace, replacement_token, i) ==
    IF i > Len(tokens) THEN <<>>
    ELSE LET can_replace ==
                 IF i < Len(tokens)
                 THEN pair_to_replace[1] = tokens[i] /\ pair_to_replace[2] = tokens[i+1]
                 ELSE FALSE
         IN  IF can_replace
             THEN <<replacement_token>>
                      \o Basic_merge_from(tokens, pair_to_replace, replacement_token, i + 2)
             ELSE <<tokens[i]>>
                      \o Basic_merge_from(tokens, pair_to_replace, replacement_token, i + 1)

\* a scan that steps one element after a replacement
RECURSIVE Overlap_merge_from(_, _, _, _)
Overlap_merge_from(tokens, pair_to_replace, replacement_token, i) ==
    IF i > Len(tokens) THEN <<>>
    ELSE IF i < Len(tokens) /\ pair_to_replace[1] = tokens[i] /\ pair_to_replace[2] = tokens[i+1]
         THEN <<replacement_token>>
                  \o Overlap_merge_from(tokens, pair_to_replace, replacement_token, i + 1)
         ELSE <<tokens[i]>>
                  \o Overlap_merge_from(tokens, pair_to_replace, replacement_token, i + 1)

Overlap_merge(tokens, pair_to_replace, replacement_token) ==
    Overlap_merge_from(tokens, pair_to_replace, replacement_token, 1)

Basic_merge(tokens, pair_to_replace, replacement_token) ==
    Basic_merge_from(tokens, pair_to_replace, replacement_token, 1)

\* the two halves joined in the other order
VocabSetSwapped(vocab, new_index, top_pair) ==
    [t \in DOMAIN vocab \cup {new_index} |->
        IF t = new_index THEN vocab[top_pair[2]] \o vocab[top_pair[1]] ELSE vocab[t]]

\* vocab[new_index] = vocab[top_pair[0]] + vocab[top_pair[1]]
VocabSet(vocab, new_index, top_pair) ==
    [t \in DOMAIN vocab \cup {new_index} |->
        IF t = new_index THEN vocab[top_pair[1]] \o vocab[top_pair[2]] ELSE vocab[t]]

\* vocab = {idx: bytes([idx]) for idx in range(256)}
ByteVocab == [idx \in 0..(BaseVocab - 1) |-> <<idx>>]

\* what _byte_pair_encode returns, or the error it raises; tokens is the working
\* sequence as the loop left it
Returned(vocab, merges, tokens) ==
    [ok |-> TRUE, err |-> "", vocab |-> vocab, merges |-> merges, tokens |-> tokens]
Raised(err) ==
    [ok |-> FALSE, err |-> err, vocab |-> <<>>, merges |-> <<>>, tokens |-> <<>>]

\* the for loop of _byte_pair_encode from iteration i on
RECURSIVE Basic_bpe_from(_, _, _, _, _, _)
Basic_bpe_from(tokens, original_vocab_size, number_of_merges, i, vocab, merges) ==
    IF i >= number_of_merges THEN Returned(vocab, merges, tokens)
    ELSE LET pair_counts == Basic_count_pairs(tokens) IN
         \* max() of an empty dict raises ValueError
         IF pair_counts = <<>> THEN Raised("ValueError")
         ELSE LET top_pair == MaxKey(pair_counts)
                  new_index == original_vocab_size + i
              IN  Basic_bpe_from(Basic_merge(tokens, top_pair, new_index),
                                 original_vocab_size, number_of_merges, i + 1,
                                 VocabSet(vocab, new_index, top_pair),
                                 DictSet(merges, top_pair, new_index))

Basic_byte_pair_encode(tokens, original_vocab_size, number_of_merges) ==
    Basic_bpe_from(tokens, original_vocab_size, number_of_merges, 0, ByteVocab, <<>>)

\* train up to the assignment of self._vocab and self._merges
Basic_train(text, vocab_size) ==
    LET tokens == Utf8Encode(text)
        number_of_merges == vocab_size - BaseVocab
    IN  Basic_byte_pair_encode(tokens, vocab_size, number_of_merges)

\* the for loop of encode over self._merges.items(), from entry j on
RECURSIVE Basic_replay(_, _, _)
Basic_replay(tokens, merges, j) ==
    IF j > Len(merges) THEN tokens
    ELSE Basic_replay(Basic_merge(tokens, merges[j].key, merges[j].val), merges, j + 1)

\* the entries taken last to first
RECURSIVE Reverse_replay(_, _, _)
Reverse_replay(tokens, merges, j) ==
    IF j > Len(merges) THEN tokens
    ELSE Reverse_replay(Basic_merge(tokens, merges[Len(merges) + 1 - j].key,
                                    merges[Len(merges) + 1 - j].val), merges, j + 1)

Reverse_encode(vocab, merges, text) ==
    IF vocab = None \/ merges = None THEN [ok |-> FALSE, err |-> "NotTrained", val |-> <<>>]
    ELSE [ok |-> TRUE, err |-> "", val |-> Reverse_replay(Utf8Encode(text), merges.val, 1)]

\* encode with no check of the trained state
Unguarded_encode(vocab, merges, text) ==
    [ok |-> TRUE, err |-> "",
     val |-> IF merges = None THEN Utf8Encode(text)
             ELSE Basic_replay(Utf8Encode(text), merges.val, 1)]

Basic_encode(vocab, merges, text) ==
    IF vocab = None \/ merges = None THEN [ok |-> FALSE, err |-> "NotTrained", val |-> <<>>]
    ELSE [ok |-> TRUE, err |-> "", val |-> Basic_replay(Utf8Encode(text), merges.val, 1)]

\* b''.join(self._vocab[token] for token in encoded_tokens)
RECURSIVE JoinBytes(_, _)
JoinBytes(vocab, encoded_tokens) ==
    IF encoded_tokens = <<>> THEN <<>>
    ELSE vocab[Head(encoded_tokens)] \o JoinBytes(vocab, Tail(encoded_tokens))

Basic_decode(vocab, merges, encoded_tokens) ==
    IF vocab = None \/ merges = None THEN [ok |-> FALSE, err |-> "NotTrained", val |-> <<>>]
    \* self._vocab[token] of a token that is no key raises KeyError
    ELSE IF \E j \in 1..Len(encoded_tokens) : encoded_tokens[j] \notin DOMAIN vocab.val
         THEN [ok |-> FALSE, err |-> "KeyError", val |-> <<>>]
    ELSE [ok |-> TRUE, err |-> "", val |-> Utf8Decode(JoinBytes(vocab.val, encoded_tokens))]

(***************************************************************************)
(* RegexTokenizer, regex.py.                                               *)
(***************************************************************************)
\* the loop of _count_pairs, updating pair_counts, from pair i on
RECURSIVE Regex_count_from(_, _, _)
Regex_count_from(tokens, i, pair_counts) ==
    IF i >= Len(tokens) THEN pair_counts
    ELSE LET pair == <<tokens[i], tokens[i+1]>> IN
         Regex_count_from(tokens, i + 1,
                          DictSet(pair_counts, pair, DictGet(pair_counts, pair, 0) + 1))

Regex_count_pairs(tokens, pair_counts) == Regex_count_from(tokens, 1, pair_counts)

\* for chunk in token_chunks: pair_counts = self._count_pairs(chunk, pair_counts)
RECURSIVE Regex_count_chunks(_, _)
Regex_count_chunks(token_chunks, pair_counts) ==
    IF token_chunks = <<>> THEN pair_counts
    ELSE Regex_count_chunks(Tail(token_chunks),
                            Regex_count_pairs(Head(token_chunks), pair_counts))

\* the while loop of _merge from index i on
RECURSIVE Regex_merge_from(_, _, _, _)
Regex_merge_from(tokens, pair_to_replace, replacement_token, i) ==
    IF i > Len(tokens) THEN <<>>
    ELSE LET can_replace ==
                 IF i < Len(tokens)
                 THEN pair_to_replace[1] = tokens[i] /\ pair_to_replace[2] = tokens[i+1]
                 ELSE FALSE
         IN  IF can_replace
             THEN <<replacement_token>>
                      \o Regex_merge_from(tokens, pair_to_replace, replacement_token, i + 2)
             ELSE <<tokens[i]>>
                      \o Regex_merge_from(tokens, pair_to_replace, replacement_token, i + 1)

Regex_merge(tokens, pair_to_replace, replacement_token) ==
    Regex_merge_from(tokens, pair_to_replace, replacement_token, 1)

\* [self._merge(chunk, top_pair, new_index) for chunk in token_chunks]
Regex_merge_chunks(token_chunks, top_pair, new_index) ==
    [c \in 1..Len(token_chunks) |-> Regex_merge(token_chunks[c], top_pair, new_index)]

\* the for loop of _byte_pair_encode from iteration i on
RECURSIVE Regex_bpe_from(_, _, _, _, _, _)
Regex_bpe_from(token_chunks, original_vocab_size, number_of_merges, i, vocab, merges) ==
    IF i >= number_of_merges THEN Returned(vocab, merges, token_chunks)
    ELSE LET pair_counts == Regex_count_chunks(token_chunks, <<>>) IN
         IF pair_counts = <<>> THEN Raised("ValueError")
         ELSE LET top_pair == MaxKey(pair_counts)
                  new_index == original_vocab_size + i
              IN  Regex_bpe_from(Regex_merge_chunks(token_chunks, top_pair, new_index),
                                 original_vocab_size, number_of_merges, i + 1,
                                 VocabSet(vocab, new_index, top_pair),
                                 DictSet(merges, top_pair, new_index))

Regex_byte_pair_encode(token_chunks, original_vocab_size, number_of_merges) ==
    Regex_bpe_from(token_chunks, original_vocab_size, number_of_merges, 0, ByteVocab, <<>>)

\* [list(str(chunk).encode('utf-8')) for chunk in text_chunks]
ChunkBytes(text_chunks) ==
    [c \in 1..Len(text_chunks) |-> Utf8Encode(text_chunks[c])]

Regex_train(text, vocab_size) ==
    LET tokens == ChunkBytes(FindAll(text))
        number_of_merges == vocab_size - BaseVocab
    IN  Regex_byte_pair_encode(tokens, vocab_size, number_of_merges)

\* the inner for loop of encode over self._merges.items(), from entry j on
RECURSIVE Regex_replay(_, _, _)
Regex_replay(token_chunk, merges, j) ==
    IF j > Len(merges) THEN token_chunk
    ELSE Regex_replay(Regex_merge(token_chunk, merges[j].key, merges[j].val), merges, j + 1)

\* the outer for loop of encode over text_chunks: tokens.extend(token_chunk)
RECURSIVE Regex_encode_chunks(_, _)
Regex_encode_chunks(text_chunks, merges) ==
    IF text_chunks = <<>> THEN <<>>
    ELSE Regex_replay(Utf8Encode(Head(text_chunks)), merges, 1)
             \o Regex_encode_chunks(Tail(text_chunks), merges)

\* the merges replayed on the whole text at once
Unsplit_encode(vocab, merges, text) ==
    IF vocab = None \/ merges = None THEN [ok |-> FALSE, err |-> "NotTrained", val |-> <<>>]
    ELSE [ok |-> TRUE, err |-> "", val |-> Regex_replay(Utf8Encode(text), merges.val, 1)]

Regex_encode(vocab, merges, text) ==
    IF vocab = None \/ merges = None THEN [ok |-> FALSE, err |-> "NotTrained", val |-> <<>>]
    ELSE [ok |-> TRUE, err |-> "", val |-> Regex_encode_chunks(FindAll(text), merges.val)]

Regex_decode(vocab, merges, encoded_tokens) ==
    IF vocab = None \/ merges = None THEN [ok |-> FALSE, err |-> "NotTrained", val |-> <<>>]
    ELSE IF \E j \in 1..Len(encoded_tokens) : encoded_tokens[j] \notin DOMAIN vocab.val
         THEN [ok |-> FALSE, err |-> "KeyError", val |-> <<>>]
    ELSE [ok |-> TRUE, err |-> "", val |-> Utf8Decode(JoinBytes(vocab.val, encoded_tokens))]

(***************************************************************************)
(* The _merge of minbpe/tokenizer.py: pair_to_replace is indexed with the  *)
(* loop index, and indexing a 2-tuple at 2 or beyond raises IndexError.    *)
(* The result is the list built, or <<"IndexError">>.                      *)
(***************************************************************************)
RECURSIVE Draft_merge_from(_, _, _, _, _)
Draft_merge_from(tokens, pair_to_replace, replacement_token, i, new_tokens) ==
    \* i counts from 0 as in the source; tokens[i] there is tokens[i+1] here
    IF i >= Len(tokens) THEN [ok |-> TRUE, err |-> "", val |-> new_tokens]
    ELSE IF i < Len(tokens) - 1
         THEN IF i >= 2 THEN [ok |-> FALSE, err |-> "IndexError", val |-> <<>>]
              ELSE IF pair_to_replace[i+1] # tokens[i+1]
                   THEN Draft_merge_from(tokens, pair_to_replace, replacement_token,
                                         i + 1, Append(new_tokens, tokens[i+1]))
              ELSE IF i + 1 >= 2 THEN [ok |-> FALSE, err |-> "IndexError", val |-> <<>>]
              ELSE IF pair_to_replace[i+2] = tokens[i+2]
                   THEN Draft_merge_from(tokens, pair_to_replace, replacement_token,
                                         i + 2, Append(new_tokens, replacement_token))
                   ELSE Draft_merge_from(tokens, pair_to_replace, replacement_token,
                                         i + 1, Append(new_tokens, tokens[i+1]))
         ELSE Draft_merge_from(tokens, pair_to_replace, replacement_token,
                               i + 1, Append(new_tokens, tokens[i+1]))

Draft_merge(tokens, pair_to_replace, replacement_token) ==
    Draft_merge_from(tokens, pair_to_replace, replacement_token, 0, <<>>)

(***************************************************************************)
(* One tokenizer instance and its callers.                                 *)
(*   kind            the class of the instance                             *)
(*   self_vocab, self_merges   self._vocab and self._merges                *)
(*   call            the last call made on the instance and how it ended   *)
(*   log             the last train call that returned: its arguments and  *)
(*                   the working sequence its loop ended with              *)
(*   raised          whether some train call has raised                    *)
(* and, for _merge called on its own, its arguments and the results of the *)
(* three implementations.                                                  *)
(***************************************************************************)
VARIABLES kind, self_vocab, self_merges, call, log, raised,
          mTokens, mPair, mRepl, mBasic, mRegex, mDraft

tokenizer == <<kind, self_vocab, self_merges, call, log, raised>>
kernel == <<mTokens, mPair, mRepl, mBasic, mRegex, mDraft>>
vars == <<kind, self_vocab, self_merges, call, log, raised,
          mTokens, mPair, mRepl, mBasic, mRegex, mDraft>>

Kinds == {"basic", "regex"}

Train(k, text, vocab_size) ==
    IF k = "basic" THEN Basic_train(text, vocab_size) ELSE Regex_train(text, vocab_size)

Encode(k, v, m, text) ==
    IF k = "basic" THEN Basic_encode(v, m, text) ELSE Regex_encode(v, m, text)

Decode(k, v, m, encoded_tokens) ==
    IF k = "basic" THEN Basic_decode(v, m, encoded_tokens)
    ELSE Regex_decode(v, m, encoded_tokens)

\* train tabulated over the inputs of the model, so that it is computed once for
\* each of them: first over the texts, for one class and one vocab_size
RECURSIVE TrainRow(_, _, _)
TrainRow(k, vocab_size, texts) ==
    IF texts = {} THEN <<>>
    ELSE LET text == CHOOSE t \in texts : TRUE
         IN  (<<k, text, vocab_size>> :> Train(k, text, vocab_size))
                 @@ TrainRow(k, vocab_size, texts \ {text})

RECURSIVE TrainRows(_)
TrainRows(keys) ==
    IF keys = {} THEN <<>>
    ELSE LET key == CHOOSE x \in keys : TRUE
         IN  TrainRow(key[1], key[2], Corpora) @@ TrainRows(keys \ {key})

TrainTable == TrainRows(Kinds \X VocabSizes)

NoCall == [op |-> "new", text |-> <<>>, vocab_size |-> 0, tokens |-> <<>>,
           src |-> None, outcome |-> "ok", ret |-> <<>>]

\* __init__
Fresh ==
    /\ kind \in Kinds
    /\ self_vocab = None
    /\ self_merges = None
    /\ call = NoCall
    /\ log = None
    /\ raised = FALSE

NoMerge ==
    /\ mTokens = <<>>
    /\ mPair = <<0, 0>>
    /\ mRepl = 0
    /\ mBasic = None
    /\ mRegex = None
    /\ mDraft = None

Init == Fresh /\ NoMerge

\* an assignment made whether or not the call before it returned
AssignedAnyway(current, r, value) == Some(value)

\* self._vocab = vocab, self._merges = merges: reached only when
\* _byte_pair_encode returned, an exception raised there leaves the field as it is
Assigned(current, r, value) == IF r.ok THEN Some(value) ELSE current

\* tokenizer.train(text, vocab_size): the tables are assigned after
\* _byte_pair_encode has returned, and not at all when it raises
TrainCall ==
    \E text \in Corpora, vocab_size \in VocabSizes :
        LET r == TrainTable[<<kind, text, vocab_size>>] IN
        /\ call' = [NoCall EXCEPT !.op = "train", !.text = text,
                                  !.vocab_size = vocab_size,
                                  !.outcome = IF r.ok THEN "ok" ELSE r.err]
        /\ self_vocab' = Assigned(self_vocab, r, r.vocab)
        /\ self_merges' = Assigned(self_merges, r, r.merges)
        /\ log' = IF r.ok
                  THEN Some([text |-> text, vocab_size |-> vocab_size, tokens |-> r.tokens])
                  ELSE log
        /\ raised' = (raised \/ ~r.ok)
        /\ UNCHANGED <<kind, kernel>>

\* tokenizer.encode(text)
EncodeCall ==
    \E text \in Texts :
        LET r == Encode(kind, self_vocab, self_merges, text) IN
        /\ call' = [NoCall EXCEPT !.op = "encode", !.text = text,
                                  !.outcome = IF r.ok THEN "ok" ELSE r.err,
                                  !.ret = r.val]
        /\ UNCHANGED <<kind, self_vocab, self_merges, log, raised, kernel>>

\* tokenizer.decode(encoded_tokens), of the documented token list or of what the
\* encode call just before returned (src is then the text that was encoded)
DecodeCall ==
    \E arg \in {[tokens |-> ScenarioTokens, src |-> None]}
               \cup (IF call.op = "encode" /\ call.outcome = "ok"
                     THEN {[tokens |-> call.ret, src |-> Some(call.text)]} ELSE {}) :
        LET r == Decode(kind, self_vocab, self_merges, arg.tokens) IN
        /\ call' = [NoCall EXCEPT !.op = "decode", !.tokens = arg.tokens,
                                  !.src = arg.src,
                                  !.outcome = IF r.ok THEN "ok" ELSE r.err,
                                  !.ret = r.val]
        /\ UNCHANGED <<kind, self_vocab, self_merges, log, raised, kernel>>

Next == TrainCall \/ EncodeCall \/ DecodeCall

Spec == Init /\ [][Next]_vars

(***************************************************************************)
(* _merge on its own: the arguments are drawn at the start, and each of    *)
(* the three implementations is applied to them.                           *)
(***************************************************************************)
MergeTokens == {97, 98}
MergeReplacements == {256, 97}

MergeInit ==
    /\ Fresh
    /\ mTokens \in SeqsUpTo(MergeTokens, MaxMergeLen)
    /\ mPair \in MergeTokens \X MergeTokens
    /\ mRepl \in MergeReplacements
    /\ mBasic = None
    /\ mRegex = None
    /\ mDraft = None

BasicMergeCall ==
    /\ mBasic = None
    /\ mBasic' = Some(Basic_merge(mTokens, mPair, mRepl))
    /\ UNCHANGED <<tokenizer, mTokens, mPair, mRepl, mRegex, mDraft>>

RegexMergeCall ==
    /\ mRegex = None
    /\ mRegex' = Some(Regex_merge(mTokens, mPair, mRepl))
    /\ UNCHANGED <<tokenizer, mTokens, mPair, mRepl, mBasic, mDraft>>

DraftMergeCall ==
    /\ mDraft = None
    /\ mDraft' = Some(Draft_merge(mTokens, mPair, mRepl))
    /\ UNCHANGED <<tokenizer, mTokens, mPair, mRepl, mBasic, mRegex>>

MergeNext == BasicMergeCall \/ RegexMergeCall \/ DraftMergeCall

SpecMerge == MergeInit /\ [][MergeNext]_vars

(***************************************************************************)
(* Terms the properties below are stated in.                               *)
(***************************************************************************)
\* the byte offsets at which the parts of a list of byte strings end
RECURSIVE EndsFrom(_, _)
EndsFrom(parts, start) ==
    IF parts = <<>> THEN {}
    ELSE {start + Len(Head(parts))} \cup EndsFrom(Tail(parts), start + Len(Head(parts)))

\* the bytes each token of a list stands for
Expansions(vocab, tokens) == [j \in 1..Len(tokens) |-> vocab[tokens[j]]]

\* the working sequence training starts from, as a list of chunks (the Byte
\* Tokenizer has the whole text as its one chunk)
StartChunks(k, text) ==
    IF k = "basic" THEN <<Utf8Encode(text)>> ELSE ChunkBytes(FindAll(text))

\* the working sequence a train call ended with, as a list of chunks
EndChunks(k, tokens) == IF k = "basic" THEN <<tokens>> ELSE tokens

\* where a pair stands in a list of chunks: <<chunk, index of its first token>>
Places(chunks, pair) ==
    {p \in UNION {{<<c, i>> : i \in 1..(Len(chunks[c]) - 1)} : c \in 1..Len(chunks)} :
        chunks[p[1]][p[2]] = pair[1] /\ chunks[p[1]][p[2] + 1] = pair[2]}

AdjacentPairs(chunks) ==
    UNION {{<<chunks[c][i], chunks[c][i+1]>> : i \in 1..(Len(chunks[c]) - 1)} :
              c \in 1..Len(chunks)}

Before(p, q) == p[1] < q[1] \/ (p[1] = q[1] /\ p[2] < q[2])

FirstPlace(chunks, pair) ==
    CHOOSE p \in Places(chunks, pair) : \A q \in Places(chunks, pair) : p = q \/ Before(p, q)

\* whether pair has the most places in chunks and, among the pairs that have as
\* many, the earliest first place
IsFirstMostFrequent(chunks, pair) ==
    /\ pair \in AdjacentPairs(chunks)
    /\ \A other \in AdjacentPairs(chunks) \ {pair} :
          \/ Cardinality(Places(chunks, other)) < Cardinality(Places(chunks, pair))
          \/ /\ Cardinality(Places(chunks, other)) = Cardinality(Places(chunks, pair))
             /\ Before(FirstPlace(chunks, pair), FirstPlace(chunks, other))

\* the working sequence after the first n entries of a Merge Table
RECURSIVE WorkAfter(_, _, _)
WorkAfter(chunks, table, n) ==
    IF n = 0 THEN chunks
    ELSE LET before == WorkAfter(chunks, table, n - 1)
         IN  [c \in 1..Len(before) |-> Basic_merge(before[c], table[n].key, table[n].val)]

\* whether bytes lie inside one of the chunks, as a run of it
InsideOneChunk(chunks, bytes) ==
    \E c \in 1..Len(chunks) : \E i \in 1..Len(chunks[c]) :
        i + Len(bytes) - 1 <= Len(chunks[c])
        /\ SubSeq(chunks[c], i, i + Len(bytes) - 1) = bytes

Trained == log # None

(***************************************************************************)
(* C1.  Round trip: once a train call with vocab_size >= 256 has returned, *)
(* decode of what encode returned for a text returns that text, and the    *)
(* byte expansions of the tokens, joined, are the UTF-8 bytes of the text. *)
(* This holds for both classes and for texts other than the corpus.        *)
(***************************************************************************)
RoundTrip ==
    (call.op = "decode" /\ call.src # None /\ Trained /\ log.val.vocab_size >= BaseVocab) =>
        /\ call.outcome = "ok"
        /\ call.ret = call.src.val
        /\ JoinBytes(self_vocab.val, call.tokens) = Utf8Encode(call.src.val)

\* a text other than the corpus, with a two byte character, has been encoded
\* with a learned token and decoded
RoundTripWitness ==
    /\ kind = "regex"
    /\ call.op = "decode" /\ call.src # None /\ call.outcome = "ok"
    /\ Trained /\ log.val.vocab_size > BaseVocab
    /\ call.src.val # log.val.text
    /\ 233 \in {call.src.val[j] : j \in 1..Len(call.src.val)}
    /\ \E j \in 1..Len(call.tokens) : call.tokens[j] >= BaseVocab
    /\ call.ret = call.src.val

(***************************************************************************)
(* C2.  Learned token ids start at 256 and follow one another: the merge   *)
(* of iteration i is recorded under 256 + i.  Training the Byte Tokenizer  *)
(* on "aaab" with vocab_size 257 records (97,97) -> 256, encode("aaab")    *)
(* returns [256, 97, 98] and decode([256, 97, 98]) returns "aaab".         *)
(***************************************************************************)
SequentialIds ==
    Trained =>
        /\ \A j \in 1..Len(self_merges.val) : self_merges.val[j].val = BaseVocab + (j - 1)
        /\ (kind = "basic" /\ log.val.text = ScenarioText /\ log.val.vocab_size = 257) =>
              /\ self_merges.val = <<[key |-> <<97, 97>>, val |-> 256]>>
              /\ (call.op = "encode" /\ call.text = ScenarioText) =>
                     call.ret = ScenarioTokens
              /\ (call.op = "decode" /\ call.tokens = ScenarioTokens) =>
                     (call.outcome = "ok" /\ call.ret = ScenarioText)

(***************************************************************************)
(* C3.  Vocabulary growth, as claimed: after every train call with         *)
(* vocab_size V >= 256, whatever the text, the Vocabulary Table has V      *)
(* entries and the Merge Table V - 256.                                    *)
(***************************************************************************)
VocabularyGrowthAlways ==
    (call.op = "train" /\ call.vocab_size >= BaseVocab) =>
        /\ call.outcome = "ok"
        /\ Cardinality(DOMAIN self_vocab.val) = call.vocab_size
        /\ Len(self_merges.val) = call.vocab_size - BaseVocab

\* whether no chunk of the text holds two bytes, so that no pair is adjacent
NoPairAtAll(k, text) == AdjacentPairs(StartChunks(k, text)) = {}

(***************************************************************************)
(* C3, what train does instead.  A train call with vocab_size V >= 256     *)
(* either returns, and the Vocabulary Table then has V entries and the     *)
(* Merge Table V - 256, or raises ValueError out of max() because an       *)
(* iteration found no adjacent pair.  It returns when V = 256, and raises  *)
(* when V > 256 and the text has no adjacent pair to begin with (empty     *)
(* text, chunks of one byte).                                              *)
(***************************************************************************)
VocabularyGrowth ==
    (call.op = "train" /\ call.vocab_size >= BaseVocab) =>
        /\ call.outcome \in {"ok", "ValueError"}
        /\ call.outcome = "ok" =>
              /\ Cardinality(DOMAIN self_vocab.val) = call.vocab_size
              /\ Len(self_merges.val) = call.vocab_size - BaseVocab
        /\ call.vocab_size = BaseVocab => call.outcome = "ok"
        /\ (call.vocab_size > BaseVocab /\ NoPairAtAll(kind, call.text)) =>
              call.outcome = "ValueError"
        /\ call.outcome = "ValueError" =>
              \E n \in 0..(call.vocab_size - BaseVocab - 1) :
                  Len(TrainTable[<<kind, call.text, BaseVocab + n>>].merges) = n
                  /\ AdjacentPairs(EndChunks(kind,
                         TrainTable[<<kind, call.text, BaseVocab + n>>].tokens)) = {}

\* a train call asked for two merges of a text that has one pair, and raised
VocabularyGrowthWitness ==
    /\ call.op = "train" /\ call.outcome = "ValueError"
    /\ call.vocab_size = BaseVocab + 2
    /\ ~NoPairAtAll(kind, call.text)

(***************************************************************************)
(* C4.  train with vocab_size < 256 fails with InvalidConfiguration and    *)
(* installs no trained state.                                              *)
(***************************************************************************)
SmallVocabRefused ==
    /\ (call.op = "train" /\ call.vocab_size < BaseVocab) =>
           call.outcome = "InvalidConfiguration"
    /\ Trained => log.val.vocab_size >= BaseVocab

(***************************************************************************)
(* C5.  Untrained refusal: an encode or decode call made while no train    *)
(* call has returned fails with NotTrained and returns nothing, on a new   *)
(* instance and after train calls that raised.                             *)
(***************************************************************************)
UntrainedRefusal ==
    (call.op \in {"encode", "decode"} /\ ~Trained) =>
        (call.outcome = "NotTrained" /\ call.ret = <<>>)

\* decode was refused after a train call had raised
UntrainedRefusalWitness ==
    /\ raised /\ ~Trained
    /\ call.op = "decode"
    /\ call.outcome = "NotTrained"

(***************************************************************************)
(* C6.  Chunk isolation in the Chunked Tokenizer: training counts and      *)
(* merges pairs inside chunks only, so every learned token stands for      *)
(* bytes that lie inside one chunk of the corpus and the working sequence  *)
(* keeps one list for each chunk; encode replays the Merge Table on each   *)
(* chunk, so every chunk of the text ends where a token ends and the       *)
(* result is the chunks' results joined in order.                          *)
(***************************************************************************)
ChunkIsolation ==
    (kind = "regex" /\ Trained) =>
        LET chunks == ChunkBytes(FindAll(log.val.text)) IN
        /\ \A j \in 1..Len(self_merges.val) :
              /\ self_merges.val[j].key \in
                     AdjacentPairs(WorkAfter(chunks, self_merges.val, j - 1))
              /\ InsideOneChunk(chunks, self_vocab.val[self_merges.val[j].val])
        /\ Len(log.val.tokens) = Len(chunks)
        /\ \A c \in 1..Len(chunks) :
              JoinBytes(self_vocab.val, log.val.tokens[c]) = chunks[c]
        /\ (call.op = "encode" /\ call.outcome = "ok") =>
              /\ EndsFrom(ChunkBytes(FindAll(call.text)), 0)
                     \subseteq EndsFrom(Expansions(self_vocab.val, call.ret), 0)
              /\ call.ret = Flatten(WorkAfter(ChunkBytes(FindAll(call.text)),
                                              self_merges.val, Len(self_merges.val)))

\* a text was encoded in which a pair of the Merge Table stands across the end
\* of a chunk, and was left unmerged there
ChunkIsolationWitness ==
    /\ kind = "regex" /\ Trained
    /\ call.op = "encode" /\ call.outcome = "ok"
    /\ Len(FindAll(call.text)) >= 2
    /\ Len(self_merges.val) >= 1
    /\ Regex_replay(Utf8Encode(call.text), self_merges.val, 1) # call.ret

(***************************************************************************)
(* C8.  encode replays the Merge Table in its stored order, and for the    *)
(* text the tokenizer was trained on it returns the working sequence the   *)
(* train call ended with (for the Chunked Tokenizer, its chunks joined in  *)
(* order).                                                                 *)
(***************************************************************************)
EncodeReplaysTraining ==
    (call.op = "encode" /\ call.outcome = "ok" /\ call.text = log.val.text) =>
        /\ call.ret = Flatten(EndChunks(kind, log.val.tokens))
        /\ call.ret = Flatten(WorkAfter(StartChunks(kind, call.text), self_merges.val,
                                        Len(self_merges.val)))

\* the corpus was encoded after two merges, the second built on the first
EncodeReplaysTrainingWitness ==
    /\ call.op = "encode" /\ call.outcome = "ok" /\ call.text = log.val.text
    /\ Len(self_merges.val) = 2
    /\ self_merges.val[1].val \in {self_merges.val[2].key[1], self_merges.val[2].key[2]}
    /\ self_merges.val[2].val \in {call.ret[j] : j \in 1..Len(call.ret)}

(***************************************************************************)
(* Terms the merge properties are stated in.                               *)
(***************************************************************************)
\* the tokens with every occurrence of the pair replaced, found by one scan
\* from the left in which a replaced pair's second token starts no other
RECURSIVE GreedyReplace(_, _, _)
GreedyReplace(tokens, pair, replacement) ==
    IF Len(tokens) < 2 THEN tokens
    ELSE IF <<tokens[1], tokens[2]>> = pair
         THEN <<replacement>> \o GreedyReplace(Tail(Tail(tokens)), pair, replacement)
         ELSE <<Head(tokens)>> \o GreedyReplace(Tail(tokens), pair, replacement)

\* how many replacements that scan makes
RECURSIVE GreedyCount(_, _)
GreedyCount(tokens, pair) ==
    IF Len(tokens) < 2 THEN 0
    ELSE IF <<tokens[1], tokens[2]>> = pair
         THEN 1 + GreedyCount(Tail(Tail(tokens)), pair)
         ELSE GreedyCount(Tail(tokens), pair)

MergedAsSpecified(out) ==
    /\ out = GreedyReplace(mTokens, mPair, mRepl)
    /\ Len(out) = Len(mTokens) - GreedyCount(mTokens, mPair)
    /\ (Len(mTokens) = 3 /\ mPair[1] = mPair[2]
           /\ \A j \in 1..3 : mTokens[j] = mPair[1]) =>
          out = <<mRepl, mPair[1]>>

(***************************************************************************)
(* C7.  merge(S, (a, b), z) of both tokenizer classes returns S with every *)
(* occurrence of a, b replaced by z, scanning from the left without        *)
(* overlap: the result is as long as S less the replacements made,         *)
(* merge([X, X, X], (X, X), Y) is [Y, X], and S itself is left as it was.  *)
(***************************************************************************)
MergeGreedy ==
    /\ [](mBasic # None => MergedAsSpecified(mBasic.val))
    /\ [](mRegex # None => MergedAsSpecified(mRegex.val))
    /\ [][mTokens' = mTokens /\ mPair' = mPair /\ mRepl' = mRepl]_vars

\* both classes have merged [X, X, X] on (X, X)
MergeGreedyWitness ==
    /\ mTokens = <<97, 97, 97>> /\ mPair = <<97, 97>> /\ mRepl = 256
    /\ mBasic = Some(<<256, 97>>)
    /\ mRegex = Some(<<256, 97>>)

(***************************************************************************)
(* C9.  The _merge of src/minbpe/tokenizer.py does what its documentation  *)
(* says, which is what the _merge of the Byte Tokenizer does: it returns   *)
(* the tokens with every occurrence of the pair replaced.                  *)
(***************************************************************************)
DraftMergeAsDocumented ==
    mDraft # None =>
        /\ mDraft.val.ok
        /\ mDraft.val.val = Basic_merge(mTokens, mPair, mRepl)

(***************************************************************************)
(* C10.  Deterministic selection: the pair each training iteration merges  *)
(* has the highest count over the working sequence (all chunks together)   *)
(* and, among the pairs counted as often, the first occurrence that comes  *)
(* earliest when the chunks are scanned in order; so a train call with the *)
(* text and vocab_size of the one before leaves the tables as they were.   *)
(***************************************************************************)
DeterministicSelection ==
    /\ [](Trained =>
            \A j \in 1..Len(self_merges.val) :
                IsFirstMostFrequent(
                    WorkAfter(StartChunks(kind, log.val.text), self_merges.val, j - 1),
                    self_merges.val[j].key))
    /\ [][(Trained /\ call'.op = "train" /\ call'.outcome = "ok"
             /\ call'.text = log.val.text /\ call'.vocab_size = log.val.vocab_size)
          => (self_vocab' = self_vocab /\ self_merges' = self_merges /\ log' = log)]_vars

\* a merge was chosen among several pairs counted as often as it
DeterministicSelectionWitness ==
    /\ Trained /\ call.op = "train" /\ call.outcome = "ok"
    /\ Len(self_merges.val) >= 1
    /\ \E other \in AdjacentPairs(StartChunks(kind, log.val.text)) :
          /\ other # self_merges.val[1].key
          /\ Cardinality(Places(StartChunks(kind, log.val.text), other))
                = Cardinality(Places(StartChunks(kind, log.val.text), self_merges.val[1].key))

(***************************************************************************)
(* C11.  A train call that raises leaves the Vocabulary Table and the      *)
(* Merge Table as they were before the call: a new tokenizer stays         *)
(* untrained, a trained one keeps the tables of its last train call that   *)
(* returned.  A train call that returns replaces both tables, so the two   *)
(* are always those of one and the same call, or both absent.              *)
(***************************************************************************)
FailedTrainKeepsState ==
    /\ []((self_vocab = None) = (self_merges = None))
    /\ [](~Trained => (self_vocab = None /\ self_merges = None))
    /\ [](Trained =>
            /\ self_vocab = Some(TrainTable[<<kind, log.val.text, log.val.vocab_size>>].vocab)
            /\ self_merges = Some(TrainTable[<<kind, log.val.text, log.val.vocab_size>>].merges))
    /\ [][(call'.op = "train" /\ call'.outcome # "ok")
            => (self_vocab' = self_vocab /\ self_merges' = self_merges /\ log' = log)]_vars
    /\ [][(call'.op = "train" /\ call'.outcome = "ok")
            => (self_vocab' # None /\ self_merges' # None
                /\ log' = Some([text |-> call'.text, vocab_size |-> call'.vocab_size,
                                tokens |-> TrainTable[<<kind, call'.text,
                                                        call'.vocab_size>>].tokens]))]_vars

\* a tokenizer trained with a merge has raised in a later train call and kept
\* its tables
FailedTrainKeepsStateWitness ==
    /\ call.op = "train" /\ call.outcome = "ValueError"
    /\ Trained
    /\ self_vocab # None /\ self_merges # None
    /\ Len(self_merges.val) >= 1
    /\ log.val.text # call.text

====
